---- MODULE Spec2Model ----
(***************************************************************************)
(* GSE2 bindings of obspy.gse2.core: isGSE2, readGSE2 and writeGSE2, as a  *)
(* state machine over one file on disk, the handle the last call opened,   *)
(* the caller's Stream object and the results of the calls.                *)
(*                                                                         *)
(* A file is a sequence of items.  An item is either a run of n identical  *)
(* lines (kind "lines") or one GSE2 record (kind "rec": its WID2 header    *)
(* line followed by plines payload lines DAT2 ... CHK2).  A line is the    *)
(* sequence of its bytes, "nl" being the newline.  Sample values are held  *)
(* in halves (3 stands for 1.5), so that a float buffer can carry a value  *)
(* the coercion to int changes.  A time, and a float number of seconds, is   *)
(* a pair [s, us] of whole seconds and microseconds; absolute times count  *)
(* from 2005-01-01T00:00:00, within the non-leap years 2005..2007.         *)
(***************************************************************************)
EXTENDS Integers, Sequences, FiniteSets, TLC

\* ------------------------------------------------------------ bounds
MaxItems == 2
MaxTraces == 2

\* ------------------------------------------------- constants of core.py
ScanCap == 10000

Magic == <<"W", "I", "D", "2">>

convert_dict ==
    [station |-> "station", samp_rate |-> "sampling_rate", n_samps |-> "npts",
     channel |-> "channel", calib |-> "calib"]

gse2_extra == {"instype", "datatype", "vang", "hang", "auxid", "calper"}

TimeFields == {"d_year", "d_mon", "d_day", "t_hour", "t_min", "t_sec"}

Min(a, b) == IF a <= b THEN a ELSE b

\* ------------------------------------------------------ UTCDateTime
CumDays == <<0, 31, 59, 90, 120, 151, 181, 212, 243, 273, 304, 334>>

\* UTCDateTime(year, month, day, hour, minute, second)
UTCDateTime(y, mo, d, h, mi, s) ==
    [s |-> ((((y - 2005) * 365 + CumDays[mo] + d - 1) * 24 + h) * 3600
               + mi * 60 + s),
     us |-> 0]

\* UTCDateTime + seconds
TimeAdd(t, sec) ==
    [s |-> t.s + sec.s + (t.us + sec.us) \div 1000000,
     us |-> (t.us + sec.us) % 1000000]

\* starttime.timetuple()[0:6]
timetuple(ts) ==
    LET s == ts.s
        dayno == s \div 86400
        doy == dayno % 365
        mo == CHOOSE m \in 1..12 :
                  /\ CumDays[m] <= doy
                  /\ (m = 12 \/ doy < CumDays[m + 1])
    IN  <<2005 + dayno \div 365, mo, doy - CumDays[mo] + 1,
          (s \div 3600) % 24, (s \div 60) % 60, s % 60>>

\* starttime.microsecond
microsecond(ts) == ts.us

\* ------------------------------------------------------------ numpy
\* astype(int) of one value held in halves: truncation towards zero
astype_int(h) == IF h >= 0 THEN 2 * (h \div 2) ELSE -(2 * ((-h) \div 2))

NoData == [alloc |-> "none", dtype |-> "none", contiguous |-> TRUE, vals |-> <<>>]

\* np.require(data, 'int', ['C_CONTIGUOUS']): the array itself when it already
\* is a C-contiguous int array, otherwise a converted copy
np_require(buf) ==
    IF buf.dtype = "int" /\ buf.contiguous
    THEN buf
    ELSE [alloc |-> "np.require", dtype |-> "int", contiguous |-> TRUE,
          vals |-> [i \in DOMAIN buf.vals |-> astype_int(buf.vals[i])]]

\* --------------------------------------------------- the file as lines
HeaderLine == Magic \o <<"sp", "nl">>
PayloadLine == <<"D", "A", "T", "nl">>

\* number of lines of an item
ItemLines(it) == IF it.kind = "rec" THEN 1 + it.rec.plines ELSE it.n

\* the cursor: item i (1-based), o lines of it consumed; normalised so that
\* o < ItemLines(file[i]) whenever i <= Len(file)
StartOfFile == [i |-> 1, o |-> 0]

AtEOF(file, cur) == cur.i > Len(file)

Advance(file, cur, n) ==
    IF cur.o + n >= ItemLines(file[cur.i])
    THEN [i |-> cur.i + 1, o |-> 0]
    ELSE [i |-> cur.i, o |-> cur.o + n]

\* f.readline(): the line at the cursor, '' at end of file
readline(file, cur) ==
    IF AtEOF(file, cur) THEN <<>>
    ELSE LET it == file[cur.i]
         IN  IF it.kind = "lines" THEN it.text
             ELSE IF cur.o = 0 THEN HeaderLine ELSE PayloadLine

\* s[0:n]
Slice(s, n) == SubSeq(s, 1, Min(n, Len(s)))

\* lines left in the run of equal lines the cursor stands in
RunLeft(file, cur) ==
    LET it == file[cur.i]
    IN  IF it.kind = "rec" /\ cur.o = 0 THEN 1 ELSE ItemLines(it) - cur.o

\* f.read(n) from the start of the file
RECURSIVE fread(_, _, _)
fread(file, cur, n) ==
    IF n = 0 \/ AtEOF(file, cur) THEN <<>>
    ELSE LET line == readline(file, cur)
             got == Slice(line, n)
         IN  got \o fread(file, Advance(file, cur, 1), n - Len(got))

\* ------------------------------------------------- libgse2 (the codec)
\* a record the codec can parse stands at the cursor
AtRecord(file, cur) ==
    /\ ~AtEOF(file, cur)
    /\ file[cur.i].kind = "rec"
    /\ cur.o = 0
    /\ file[cur.i].rec.wellformed

\* libgse2.readHead(f): the header of the record, cursor left at its payload
libgse2_readHead(file, cur) ==
    IF AtRecord(file, cur)
    THEN [ok |-> TRUE, header |-> file[cur.i].rec.hdr, data |-> NoData,
          cur |-> Advance(file, cur, 1)]
    ELSE [ok |-> FALSE]

\* libgse2.read(f, verify_chksum): header and samples, cursor left behind the
\* record; fails on a checksum mismatch when asked to verify
libgse2_read(file, cur, verify_chksum) ==
    IF AtRecord(file, cur) /\ (verify_chksum => file[cur.i].rec.chk_ok)
    THEN [ok |-> TRUE, header |-> file[cur.i].rec.hdr,
          data |-> [alloc |-> "libgse2", dtype |-> "int", contiguous |-> TRUE,
                    vals |-> file[cur.i].rec.data],
          cur |-> [i |-> cur.i + 1, o |-> 0]]
    ELSE [ok |-> FALSE]

\* libgse2.write(header, data, f): one framed record, DAT2 line, one line per
\* sample and CHK2 line as its payload
libgse2_write(header, data) ==
    [kind |-> "rec",
     rec |-> [wellformed |-> TRUE, hdr |-> header, data |-> data.vals,
              chk_ok |-> TRUE, plines |-> Len(data.vals) + 2]]

\* ------------------------------------------------------------ readGSE2
Canonical == {convert_dict[i] : i \in DOMAIN convert_dict}

NativeOf(j) == CHOOSE i \in DOMAIN convert_dict : convert_dict[i] = j

\* header[i] raises KeyError for a field the decoded header lacks
HeaderKeysPresent(header) ==
    /\ DOMAIN convert_dict \subseteq DOMAIN header
    /\ gse2_extra \subseteq DOMAIN header
    /\ TimeFields \subseteq DOMAIN header

\* new_header of lines 85-95, with the samples: the Trace
NewTrace(header, data) ==
    [stats |-> [j \in Canonical \cup {"starttime"} |->
                   IF j = "starttime"
                   THEN TimeAdd(UTCDateTime(header["d_year"], header["d_mon"],
                                            header["d_day"], header["t_hour"],
                                            header["t_min"], 0),
                                header["t_sec"])
                   ELSE header[NativeOf(j)]],
     gse2 |-> [i \in gse2_extra |-> header[i]],
     data |-> data]

Returned(traces, k, capped) ==
    [outcome |-> "returned", err |-> "none", traces |-> traces, k |-> k,
     capped |-> capped]

Raised(err, k) ==
    [outcome |-> "raised", err |-> err, traces |-> <<>>, k |-> k,
     capped |-> FALSE]

\* a wider range than the loop has
xrange_stop_wide == 10 * ScanCap

\* for _k in xrange(10000)
xrange_stop == ScanCap

\* elif widi != 'WID2': continue
IsMagic(widi) == widi = Magic

\* a failing codec call caught, the traces read so far returned
OnDecodeFailureKeep(traces, k) == Returned(traces, k, FALSE)

\* a failing codec call is not caught: it leaves readGSE2
OnDecodeFailure(traces, k) == Raised("codec", k)

\* the trace put in front of the list
PrependTrace(traces, tr) == <<tr>> \o traces

\* traces.append(...)
AppendTrace(traces, tr) == Append(traces, tr)

\* the scan loop from iteration k on; a run of equal non-matching lines takes
\* one iteration of the loop per line
RECURSIVE ScanLoop(_, _, _, _, _, _)
ScanLoop(file, cur, k, traces, headonly, verify_chksum) ==
    IF k >= xrange_stop THEN Returned(traces, k, TRUE)
    ELSE
    LET widi == Slice(readline(file, cur), 4)
    IN  IF widi = <<>> THEN Returned(traces, k + 1, FALSE)
        ELSE IF ~IsMagic(widi)
        THEN LET n == Min(RunLeft(file, cur), xrange_stop - k)
             IN  ScanLoop(file, Advance(file, cur, n), k + n, traces,
                          headonly, verify_chksum)
        ELSE
        LET dec == IF headonly THEN libgse2_readHead(file, cur)
                   ELSE libgse2_read(file, cur, verify_chksum)
        IN  IF ~dec.ok THEN OnDecodeFailure(traces, k + 1)
            ELSE IF ~HeaderKeysPresent(dec.header) THEN Raised("KeyError", k + 1)
            ELSE ScanLoop(file, dec.cur, k + 1,
                          AppendTrace(traces, NewTrace(dec.header, dec.data)),
                          headonly, verify_chksum)

\* ------------------------------------------------------------ writeGSE2
\* the file opened for appending: what it held stays
open_ab(file) == file

\* f = open(filename, 'wb'): the file is created empty
open_wb(file) == <<>>

\* trace.stats.starttime.timetuple() needs a starttime
HasStartTime(trace) == "starttime" \in DOMAIN trace.stats

\* the native header of lines 115-134: entries the trace lacks are left out;
\* t_sec is the seconds plus microsecond / 1.0e6
NativeHeader(trace) ==
    LET ts == trace.stats["starttime"]
        tt == timetuple(ts)
        keys == {i \in DOMAIN convert_dict : convert_dict[i] \in DOMAIN trace.stats}
                    \cup (gse2_extra \cap DOMAIN trace.gse2)
                    \cup TimeFields
    IN  [i \in keys |->
            CASE i \in DOMAIN convert_dict -> trace.stats[convert_dict[i]]
              [] i \in gse2_extra -> trace.gse2[i]
              [] i = "d_year" -> tt[1]
              [] i = "d_mon" -> tt[2]
              [] i = "d_day" -> tt[3]
              [] i = "t_hour" -> tt[4]
              [] i = "t_min" -> tt[5]
              [] i = "t_sec" -> [s |-> tt[6], us |-> microsecond(ts)]]

\* trace.data = np.require(trace.data, 'int', ['C_CONTIGUOUS'])
CoerceData(trace) == [trace EXCEPT !.data = np_require(trace.data)]

\* the loop over the traces from trace j on; fault is the trace at which
\* libgse2.write fails (0: at none)
RECURSIVE WriteLoop(_, _, _, _)
WriteLoop(stream_object, j, file, fault) ==
    IF j > Len(stream_object)
    THEN [outcome |-> "returned", err |-> "none", file |-> file,
          stream |-> stream_object]
    ELSE IF ~HasStartTime(stream_object[j])
    THEN [outcome |-> "raised", err |-> "timestamp", file |-> file,
          stream |-> stream_object]
    ELSE
    LET header == NativeHeader(stream_object[j])
        trace == CoerceData(stream_object[j])
        st == [stream_object EXCEPT ![j] = trace]
    IN  IF fault = j
        THEN [outcome |-> "raised", err |-> "codec", file |-> file,
              stream |-> st]
        ELSE WriteLoop(st, j + 1, Append(file, libgse2_write(header, trace.data)),
                       fault)

\* -------------------------------------------------------------- isGSE2
\* 'WID2'.startswith(data)
SniffPrefix(data) == data = Slice(Magic, Len(data))

\* if data == 'WID2'
SniffMatches(data) == data = Magic

\* except: return False
OnProbeIOError == [outcome |-> "returned", value |-> FALSE]

\* ------------------------------------------------------------- inputs
Without(f, keys) == [i \in DOMAIN f \ keys |-> f[i]]

AllExtra ==
    [instype |-> "LE3D", datatype |-> "CM6", vang |-> -1, hang |-> -1,
     auxid |-> "RJOB", calper |-> 1]

StatsOf(station, ts, n) ==
    [station |-> station, sampling_rate |-> 200, npts |-> n, channel |-> "Z",
     calib |-> 1, starttime |-> ts]

BufOf(dtype, contiguous, vals) ==
    [alloc |-> "caller", dtype |-> dtype, contiguous |-> contiguous,
     vals |-> vals]

\* 2005-01-01T00:00:59.999999, 2005-01-31T23:59:59.999999,
\* 2006-03-01T00:00:01.500000
TraceA ==
    [stats |-> StatsOf("RJOB", [s |-> 59, us |-> 999999], 2), gse2 |-> AllExtra,
     data |-> BufOf("int", TRUE, <<2, -4>>)]

TraceFewExtra ==
    [stats |-> StatsOf("MANZ", [s |-> 31 * 86400 - 1, us |-> 999999], 1),
     gse2 |-> Without(AllExtra, {"auxid", "calper"}),
     data |-> BufOf("int", TRUE, <<6>>)]

TraceFloat ==
    [stats |-> StatsOf("RJOB", [s |-> (365 + 59) * 86400 + 1, us |-> 500000], 2),
     gse2 |-> AllExtra, data |-> BufOf("float", TRUE, <<3, -3>>)]

TraceNoTime ==
    [stats |-> Without(StatsOf("RJOB", [s |-> 0, us |-> 0], 1), {"starttime"}),
     gse2 |-> AllExtra, data |-> BufOf("int", TRUE, <<4>>)]

Traces == {TraceA, TraceFewExtra, TraceFloat, TraceNoTime}

Streams == UNION {[1..n -> Traces] : n \in 0..MaxTraces}

\* records of files that other programs wrote
RecOf(trace, wellformed, chk_ok, plines) ==
    [kind |-> "rec",
     rec |-> [wellformed |-> wellformed, hdr |-> NativeHeader(trace),
              data |-> np_require(trace.data).vals, chk_ok |-> chk_ok,
              plines |-> plines]]

RunOf(text, n) == [kind |-> "lines", text |-> text, n |-> n]

Records ==
    {RecOf(TraceA, TRUE, TRUE, 4),
     RecOf(TraceFloat, TRUE, TRUE, ScanCap),
     RecOf(TraceA, TRUE, FALSE, 4),
     RecOf(TraceA, FALSE, TRUE, 0),
     RecOf(TraceFewExtra, TRUE, TRUE, 3)}

Runs ==
    {RunOf(<<"nl">>, 1),
     RunOf(<<"x", "W", "I", "D", "2", "nl">>, ScanCap - 1),
     RunOf(<<"W", "I", "nl">>, ScanCap),
     RunOf(<<"W", "I", "D">>, 1)}

EndsLine(it) == it.kind = "rec" \/ it.text[Len(it.text)] = "nl"

\* every line but the last of a file ends with a newline
Files ==
    {f \in UNION {[1..n -> Records \cup Runs] : n \in 0..MaxItems} :
        \A i \in 1..Len(f) : i < Len(f) => EndsLine(f[i])}

\* --------------------------------------------------------------- state
VARIABLES
    disk,      \* the content of the file
    fh,        \* the handle the last call opened: "none", "open", "closed"
    stream,    \* the caller's Stream object, as the last writeGSE2 left it
    last,      \* the last call: its arguments and what it gave
    written    \* the Stream a completed writeGSE2 made this content from

vars == <<disk, fh, stream, last, written>>

NotWritten == [ok |-> FALSE, stream |-> <<>>]

Init ==
    /\ disk \in Files
    /\ fh = "none"
    /\ stream = <<>>
    /\ last = [op |-> "none"]
    /\ written = NotWritten

\* isGSE2(filename); io is what the file system does to the call
IsGSE2(io) ==
    LET data == fread(disk, StartOfFile, 4)
        res == IF io # "ok" THEN OnProbeIOError
               ELSE [outcome |-> "returned", value |-> SniffMatches(data)]
    IN  /\ fh' = CASE io = "open_fails" -> "none"
                   [] io = "read_fails" -> "open"
                   [] OTHER -> "closed"
        /\ last' = [op |-> "isGSE2", io |-> io, outcome |-> res.outcome,
                    value |-> res.value]
        /\ UNCHANGED <<disk, stream, written>>

\* readGSE2(filename, headonly, verify_chksum)
ReadGSE2(headonly, verify_chksum) ==
    \E r \in {ScanLoop(disk, StartOfFile, 0, <<>>, headonly, verify_chksum)} :
        /\ fh' = IF r.outcome = "returned" THEN "closed" ELSE "open"
        /\ last' = [op |-> "readGSE2", headonly |-> headonly,
                    verify_chksum |-> verify_chksum, outcome |-> r.outcome,
                    err |-> r.err, traces |-> r.traces, k |-> r.k,
                    capped |-> r.capped]
        /\ UNCHANGED <<disk, stream, written>>

\* writeGSE2(stream_object, filename)
WriteGSE2(stream_object, fault) ==
    \E w \in {WriteLoop(stream_object, 1, open_wb(disk), fault)} :
        /\ disk' = w.file
        /\ fh' = IF w.outcome = "returned" THEN "closed" ELSE "open"
        /\ stream' = w.stream
        /\ last' = [op |-> "writeGSE2", stream_object |-> stream_object,
                    fault |-> fault, outcome |-> w.outcome,
                    err |-> w.err]
        /\ written' = IF w.outcome = "returned"
                      THEN [ok |-> TRUE, stream |-> stream_object]
                      ELSE NotWritten

Next ==
    \/ \E io \in {"ok", "open_fails", "read_fails"} : IsGSE2(io)
    \/ \E headonly \in BOOLEAN, verify_chksum \in BOOLEAN :
           ReadGSE2(headonly, verify_chksum)
    \/ \E stream_object \in Streams, fault \in 0..MaxTraces :
           fault <= Len(stream_object) /\ WriteGSE2(stream_object, fault)

Spec == Init /\ [][Next]_vars

\* ------------------------------------------------- what a file holds
RecIdx(file) == {i \in 1..Len(file) : file[i].kind = "rec"}

\* the codec decodes the record under the options of the call
Decodes(rec, headonly, verify_chksum) ==
    rec.wellformed /\ (headonly \/ ~verify_chksum \/ rec.chk_ok)

\* iterations the scan spends on an item: one per line outside a record and
\* one per record; a header-only decode leaves the payload lines to the scan
Cost(it, headonly) ==
    IF it.kind = "lines" THEN it.n
    ELSE IF headonly THEN 1 + it.rec.plines ELSE 1

RECURSIVE IterBefore(_, _, _)
IterBefore(file, i, headonly) ==
    IF i = 1 THEN 0
    ELSE IterBefore(file, i - 1, headonly) + Cost(file[i - 1], headonly)

\* the first line of item i is read within the iterations the loop has
Reached(file, i, headonly) == IterBefore(file, i, headonly) < ScanCap

ReachedRecs(file, headonly) ==
    {i \in RecIdx(file) : Reached(file, i, headonly)}

\* the item of the n-th record of the file
NthRec(file, n) ==
    CHOOSE i \in RecIdx(file) : Cardinality({j \in RecIdx(file) : j <= i}) = n

\* every record the scan reaches decodes and carries every header field
AllGood(file, headonly, verify_chksum) ==
    \A i \in ReachedRecs(file, headonly) :
        /\ Decodes(file[i].rec, headonly, verify_chksum)
        /\ DOMAIN file[i].rec.hdr
               = DOMAIN convert_dict \cup gse2_extra \cup TimeFields

\* the trace carries what the header of the record says
TraceOfRecord(tr, rec, headonly) ==
    /\ \A i \in DOMAIN convert_dict : tr.stats[convert_dict[i]] = rec.hdr[i]
    /\ \A i \in gse2_extra : tr.gse2[i] = rec.hdr[i]
    /\ timetuple(tr.stats["starttime"])
           = <<rec.hdr["d_year"], rec.hdr["d_mon"], rec.hdr["d_day"],
               rec.hdr["t_hour"], rec.hdr["t_min"], rec.hdr["t_sec"].s>>
    /\ microsecond(tr.stats["starttime"]) = rec.hdr["t_sec"].us
    /\ IF headonly THEN tr.data = NoData ELSE tr.data.vals = rec.data

LastRead == last.op = "readGSE2"

\* ------------------------------------------------------------ claims
\* C1, as stated: a file of N records that decode, with any number of other
\* lines between them, reads as a Stream of exactly N traces, the i-th trace
\* built from the i-th record (N = 0: an empty Stream, no failure).
C1_ExactlyNTraces ==
    (LastRead /\ \A i \in RecIdx(disk) :
                    /\ Decodes(disk[i].rec, last.headonly, last.verify_chksum)
                    /\ DOMAIN disk[i].rec.hdr
                           = DOMAIN convert_dict \cup gse2_extra \cup TimeFields)
    => /\ last.outcome = "returned"
       /\ Len(last.traces) = Cardinality(RecIdx(disk))
       /\ \A n \in 1..Len(last.traces) :
              TraceOfRecord(last.traces[n], disk[NthRec(disk, n)].rec,
                            last.headonly)

\* C1, amended: when the records the scan reaches decode, readGSE2 returns
\* a Stream of exactly the records whose WID2 line is read within the 10000
\* iterations of the scan, the i-th trace built from the i-th record; these
\* are all N records when the whole file takes at most 10000 iterations.
C1_TracesOfReachedRecords ==
    (LastRead /\ AllGood(disk, last.headonly, last.verify_chksum))
    => /\ last.outcome = "returned"
       /\ Len(last.traces) = Cardinality(ReachedRecs(disk, last.headonly))
       /\ \A n \in 1..Len(last.traces) :
              TraceOfRecord(last.traces[n], disk[NthRec(disk, n)].rec,
                            last.headonly)
       /\ IterBefore(disk, Len(disk) + 1, last.headonly) <= ScanCap
              => Len(last.traces) = Cardinality(RecIdx(disk))

\* 9999 lines and then a record: the record is read in the last iteration
C1_Witness ==
    /\ LastRead
    /\ Len(disk) = 2
    /\ disk[1].kind = "lines" /\ disk[1].n = ScanCap - 1
    /\ disk[2].kind = "rec"
    /\ last.outcome = "returned"
    /\ Len(last.traces) = 1

\* C2: a record the codec fails on makes readGSE2 fail as a whole, with no
\* Stream of the traces read before it; a Stream that is returned holds a
\* trace for every record the scan found.
C2_AllOrNothing ==
    LastRead
    => /\ (\E i \in ReachedRecs(disk, last.headonly) :
               ~Decodes(disk[i].rec, last.headonly, last.verify_chksum))
          => (last.outcome = "raised" /\ last.traces = <<>>)
       /\ last.outcome = "returned"
          => /\ \A i \in ReachedRecs(disk, last.headonly) :
                    Decodes(disk[i].rec, last.headonly, last.verify_chksum)
             /\ Len(last.traces)
                    = Cardinality(ReachedRecs(disk, last.headonly))

\* a record that decodes, then one the codec fails on
C2_Witness ==
    /\ LastRead
    /\ Len(disk) = 2
    /\ disk[1].kind = "rec" /\ disk[2].kind = "rec"
    /\ Decodes(disk[1].rec, last.headonly, last.verify_chksum)
    /\ HeaderKeysPresent(disk[1].rec.hdr)
    /\ ~Decodes(disk[2].rec, last.headonly, last.verify_chksum)
    /\ last.err = "codec"

\* C7: readGSE2 ends, after at most 10000 iterations of its loop; a file
\* that takes more ends it at the cap with a Stream returned, not an error.
C7_ScanBounded ==
    LastRead
    => /\ last.outcome \in {"returned", "raised"}
       /\ last.k <= ScanCap
       /\ (/\ AllGood(disk, last.headonly, last.verify_chksum)
           /\ IterBefore(disk, Len(disk) + 1, last.headonly) >= ScanCap)
          => (last.outcome = "returned" /\ last.k = ScanCap)

\* 10000 lines and then a record: the loop runs out before the record
C7_Witness ==
    /\ LastRead
    /\ Len(disk) = 2
    /\ disk[1].kind = "lines" /\ disk[1].n = ScanCap
    /\ disk[2].kind = "rec"
    /\ last.k = ScanCap
    /\ last.capped
    /\ last.outcome = "returned"
    /\ last.traces = <<>>

\* C3: the handle a call opened is closed when the call returns or fails.
C3_HandleClosedOnEveryExit == last.op # "none" => fh # "open"

LastWrite == last.op = "writeGSE2"

\* the first trace writeGSE2 fails at (0: none): the trace the codec fails
\* on, or an earlier one without a start time
FirstFailure(st, fault) ==
    LET bad == {j \in 1..Len(st) : ~HasStartTime(st[j]) \/ j = fault}
    IN  IF bad = {} THEN 0 ELSE CHOOSE j \in bad : \A i \in bad : j <= i

\* the item is the record of the trace: its fields under their native names,
\* its start time, its samples as integers
RecordOfTrace(it, tr) ==
    /\ it.kind = "rec"
    /\ \A j \in DOMAIN tr.stats \ {"starttime"} :
           it.rec.hdr[NativeOf(j)] = tr.stats[j]
    /\ \A i \in DOMAIN tr.gse2 : it.rec.hdr[i] = tr.gse2[i]
    /\ TimeAdd(UTCDateTime(it.rec.hdr["d_year"], it.rec.hdr["d_mon"],
                           it.rec.hdr["d_day"], it.rec.hdr["t_hour"],
                           it.rec.hdr["t_min"], 0), it.rec.hdr["t_sec"])
           = tr.stats["starttime"]
    /\ Len(it.rec.data) = Len(tr.data.vals)
    /\ \A i \in 1..Len(it.rec.data) :
           it.rec.data[i] = astype_int(tr.data.vals[i])

\* C4: after writeGSE2 the file holds one record per trace in input order:
\* all n of them when the call returns, and those of traces 1..k-1 when it
\* fails at trace k.
C4_RecordsInInputOrder ==
    LastWrite
    => LET st == last.stream_object
           k == FirstFailure(st, last.fault)
           n == IF k = 0 THEN Len(st) ELSE k - 1
       IN  /\ last.outcome = (IF k = 0 THEN "returned" ELSE "raised")
           /\ Len(disk) = n
           /\ \A j \in 1..n : RecordOfTrace(disk[j], st[j])

\* the codec fails at the second of two traces: one record is left
C4_Witness ==
    /\ LastWrite
    /\ Len(last.stream_object) = 2
    /\ last.fault = 2
    /\ last.err = "codec"
    /\ Len(disk) = 1
    /\ disk[1].rec.hdr["station"] = last.stream_object[1].stats["station"]

LastProbe == last.op = "isGSE2"

\* C5: isGSE2 gives True exactly when the file was read and its first four
\* bytes are 'WID2', and False otherwise; it never raises.
C5_SnifferExact ==
    LastProbe
    => LET data == fread(disk, StartOfFile, 4)
       IN  /\ last.outcome = "returned"
           /\ last.value
                  <=> /\ last.io = "ok"
                      /\ Len(data) = 4
                      /\ data[1] = "W" /\ data[2] = "I"
                      /\ data[3] = "D" /\ data[4] = "2"

\* a file of the three bytes 'WID' is no GSE2 file
C5_Witness ==
    /\ LastProbe
    /\ last.io = "ok"
    /\ fread(disk, StartOfFile, 4) = <<"W", "I", "D">>
    /\ last.value = FALSE

\* traces a round trip is claimed for: integer samples, not empty, every
\* canonical field, some of the extension fields
RoundTrips(tr) ==
    /\ tr.data.dtype = "int" /\ tr.data.vals # <<>>
    /\ DOMAIN tr.stats = Canonical \cup {"starttime"}
    /\ DOMAIN tr.gse2 \subseteq gse2_extra

\* C6: reading the file writeGSE2 made gives the traces written, in order,
\* with station, channel, sampling_rate, npts, calib, starttime and samples.
C6_RoundTrip ==
    (/\ LastRead /\ ~last.headonly
     /\ written.ok
     /\ \A j \in 1..Len(written.stream) : RoundTrips(written.stream[j]))
    => /\ last.outcome = "returned"
       /\ Len(last.traces) = Len(written.stream)
       /\ \A j \in 1..Len(written.stream) :
              /\ \A c \in Canonical \cup {"starttime"} :
                     last.traces[j].stats[c] = written.stream[j].stats[c]
              /\ last.traces[j].data.vals = written.stream[j].data.vals

\* C8: a header-only read gives as many traces as the full read of the same
\* file, in the same order, without samples, with its npts and starttime.
C8_HeadOnlyLikeFull ==
    (LastRead /\ last.headonly /\ last.outcome = "returned")
    => \A v \in BOOLEAN :
           LET full == ScanLoop(disk, StartOfFile, 0, <<>>, FALSE, v)
           IN  full.outcome = "returned"
               => /\ Len(last.traces) = Len(full.traces)
                  /\ \A j \in 1..Len(last.traces) :
                         /\ last.traces[j].data = NoData
                         /\ last.traces[j].stats["npts"]
                                = full.traces[j].stats["npts"]
                         /\ last.traces[j].stats["starttime"]
                                = full.traces[j].stats["starttime"]

\* C9: a record whose header lacks an extension field still reads: the trace
\* is made, its gse2 mapping without that entry.
C9_MissingExtraTolerated ==
    (/\ LastRead
     /\ \A i \in ReachedRecs(disk, last.headonly) :
            /\ Decodes(disk[i].rec, last.headonly, last.verify_chksum)
            /\ DOMAIN convert_dict \cup TimeFields \subseteq DOMAIN disk[i].rec.hdr)
    => /\ last.outcome = "returned"
       /\ Len(last.traces) = Cardinality(ReachedRecs(disk, last.headonly))
       /\ \A n \in 1..Len(last.traces) :
              DOMAIN last.traces[n].gse2
                  = gse2_extra \cap DOMAIN disk[NthRec(disk, n)].rec.hdr

\* C10: writeGSE2 leaves the traces of the caller as they were: the buffer
\* trace.data refers to, its element type and values, and the metadata.
C10_CallerTracesUntouched == LastWrite => stream = last.stream_object

====
